---- MODULE Spec2Model ----
(***************************************************************************)
(* Clinical-trial dashboards app.py ("Generate Dashboard" with filters)    *)
(* and newapp.py (trial analytics + patient eligibility matcher).          *)
(*                                                                         *)
(* Python values are tagged records: None, str (a sequence of one-letter   *)
(* strings), int, dict (a function from keys to values, an absent key is   *)
(* a key outside its DOMAIN), list.  An exception that leaves a function   *)
(* is the value Raise(exc); a call that never returns is Hang.             *)
(***************************************************************************)
EXTENDS Integers, Sequences, FiniteSets

VARIABLES
    app,          \* which script the session runs: "app" or "newapp"
    disease,      \* sidebar text_input "Disease" / "Disease / Condition"
    filters,      \* app.py sidebar widgets
    patient,      \* newapp.py matcher widgets
    cache,        \* newapp.py st.cache_data of fetch_trials, keyed by term
    sent,         \* query terms of the HTTP requests the latest run issued
    registry,     \* what the registry answers to a request in this session
    view,         \* what the latest script run ended in
    df,           \* the frame fetch_trials returned to the latest run
    out           \* the frame the latest run displayed and offers as CSV

vars == <<app, disease, filters, patient, cache, sent, registry, view, df, out>>

---------------------------------------------------------------------------
(* Python values *)

None == [t |-> "None"]
NaN == [t |-> "NaN"]
Hang == [t |-> "hang"]
Str(s) == [t |-> "str", v |-> s]
PyInt(n) == [t |-> "int", v |-> n]
Num(n) == [t |-> "num", v |-> n]
Dict(d) == [t |-> "dict", v |-> d]
List(l) == [t |-> "list", v |-> l]
Raise(e) == [t |-> "raise", exc |-> e]

\* bool(x)
Truthy(x) ==
    CASE x.t = "None" -> FALSE
      [] x.t = "NaN" -> TRUE
      [] x.t = "str" -> Len(x.v) > 0
      [] x.t = "list" -> Len(x.v) > 0
      [] x.t = "dict" -> DOMAIN x.v # {}
      [] x.t = "int" -> x.v # 0
      [] x.t = "num" -> x.v # 0

\* x.get(k, default); an exception already raised in x goes on up
Get(x, k, default) ==
    CASE x.t = "raise" -> x
      [] x.t = "dict" -> IF k \in DOMAIN x.v THEN x.v[k] ELSE default
      [] OTHER -> Raise("AttributeError")

EmptyDict == Dict(<<>>)

---------------------------------------------------------------------------
(* str operations, on sequences of characters *)

UpperCase == <<"A","B","C","D","E","F","G","H","I","J","K","L","M",
               "N","O","P","Q","R","S","T","U","V","W","X","Y","Z">>
LowerCase == <<"a","b","c","d","e","f","g","h","i","j","k","l","m",
               "n","o","p","q","r","s","t","u","v","w","x","y","z">>
Digits == <<"0","1","2","3","4","5","6","7","8","9">>

\* c.lower() of each upper-case letter
LowerMap ==
    [c \in {UpperCase[i] : i \in DOMAIN UpperCase} |->
        LowerCase[CHOOSE i \in DOMAIN UpperCase : UpperCase[i] = c]]

LowerChar(c) == IF c \in DOMAIN LowerMap THEN LowerMap[c] ELSE c

\* s.lower()
Lower(s) == [i \in DOMAIN s |-> LowerChar(s[i])]

\* sub occurs in s at position i
OccursAt(sub, s, i) == \A j \in 1..Len(sub) : s[i + j - 1] = sub[j]

\* the least i with s[i .. i+len(sub)-1] = sub, 0 when there is none
Find(sub, s) ==
    IF \E i \in 1..(Len(s) - Len(sub) + 1) : OccursAt(sub, s, i)
    THEN CHOOSE i \in 1..(Len(s) - Len(sub) + 1) :
            OccursAt(sub, s, i) /\ \A j \in 1..(i - 1) : ~OccursAt(sub, s, j)
    ELSE 0

\* sub in s
Contains(sub, s) == \E i \in 1..(Len(s) - Len(sub) + 1) : OccursAt(sub, s, i)

\* s.split(sep), sep non-empty
RECURSIVE Split(_, _)
Split(s, sep) ==
    LET i == Find(sep, s)
    IN IF i = 0 THEN <<s>>
       ELSE <<SubSeq(s, 1, i - 1)>> \o Split(SubSeq(s, i + Len(sep), Len(s)), sep)

\* str(n), n >= 0
RECURSIVE StrInt(_)
StrInt(n) ==
    IF n < 10 THEN <<Digits[n + 1]>>
    ELSE StrInt(n \div 10) \o <<Digits[(n % 10) + 1]>>

\* sep.join(parts)
RECURSIVE Join(_, _)
Join(sep, parts) ==
    IF Len(parts) = 0 THEN <<>>
    ELSE IF Len(parts) = 1 THEN parts[1]
    ELSE parts[1] \o sep \o Join(sep, Tail(parts))

\* str(x) of None, a str, an int, a list of str
PyStr(x) ==
    CASE x.t = "raise" -> x
      [] x.t = "None" -> Str(<<"N","o","n","e">>)
      [] x.t = "str" -> x
      [] x.t = "int" -> Str(StrInt(x.v))
      [] x.t = "list" ->
            Str(<<"[">> \o Join(<<",", " ">>,
                    [i \in DOMAIN x.v |-> <<"'">> \o x.v[i].v \o <<"'">>])
                \o <<"]">>)

---------------------------------------------------------------------------
(* pandas *)

\* pd.DataFrame(): no columns, no rows
EmptyFrame == [t |-> "df", columns |-> {}, index |-> <<>>, rows |-> <<>>]

\* pd.DataFrame(records): a RangeIndex; the columns are the records' keys
DataFrame(records) ==
    [t |-> "df",
     columns |-> IF Len(records) = 0 THEN {} ELSE DOMAIN records[1],
     index |-> [i \in DOMAIN records |-> i - 1],
     rows |-> records]

\* df.empty
IsEmpty(frame) == frame.columns = {} \/ Len(frame.rows) = 0

IsDigits(s) == Len(s) > 0 /\ \A i \in DOMAIN s : \E d \in DOMAIN Digits : Digits[d] = s[i]

RECURSIVE ParseInt(_)
ParseInt(s) ==
    IF Len(s) = 0 THEN 0
    ELSE 10 * ParseInt(SubSeq(s, 1, Len(s) - 1))
         + (CHOOSE d \in 0..9 : Digits[d + 1] = s[Len(s)])

\* pd.to_numeric(x, errors="coerce") of one cell
to_numeric(x) ==
    CASE x.t = "int" -> Num(x.v)
      [] x.t = "str" -> IF IsDigits(x.v) THEN Num(ParseInt(x.v)) ELSE NaN
      [] OTHER -> NaN

\* df["Enrollment"] = pd.to_numeric(df["Enrollment"], errors="coerce")
CoerceEnrollment(frame) ==
    IF "Enrollment" \notin frame.columns THEN Raise("KeyError")
    ELSE [frame EXCEPT !.rows =
            [i \in DOMAIN frame.rows |->
                [frame.rows[i] EXCEPT !.Enrollment = to_numeric(@)]]]

---------------------------------------------------------------------------
(* The registry request, the same in both scripts *)

\* response.json()
response_json(body) ==
    IF body.t = "undecodable" THEN Raise("JSONDecodeError") ELSE body

\* requests.get(...) to data["studies"]: the list the loop runs over, or what
\* fetch_trials returns or raises before the loop.  requests.get is called
\* without timeout= and outside any try.
StudiesOf(answer) ==
    CASE answer.k = "ConnectionError" -> Raise("ConnectionError")
      [] answer.k = "hang" -> Hang
      [] answer.k = "http" ->
            IF answer.status # 200 THEN EmptyFrame
            ELSE LET data == response_json(answer.body)
                 IN CASE data.t = "raise" -> data
                      [] data.t = "dict" ->
                            IF "studies" \notin DOMAIN data.v THEN EmptyFrame
                            ELSE IF data.v["studies"].t = "list"
                                 THEN data.v["studies"]
                                 ELSE Raise("TypeError")
                      [] data.t = "list" ->
                            IF \E i \in DOMAIN data.v :
                                    data.v[i].t = "str" /\ data.v[i].v = <<"s","t","u","d","i","e","s">>
                            THEN Raise("TypeError")
                            ELSE EmptyFrame
                      [] OTHER -> Raise("TypeError")

\* some field of some record is an exception raised while it was built
Raised(records) ==
    \E i \in DOMAIN records : \E f \in DOMAIN records[i] : records[i][f].t = "raise"

FirstRaised(records) ==
    LET i == CHOOSE k \in DOMAIN records :
                (\E f \in DOMAIN records[k] : records[k][f].t = "raise")
                /\ \A j \in 1..(k - 1) : \A f \in DOMAIN records[j] : records[j][f].t # "raise"
        f == CHOOSE g \in DOMAIN records[i] : records[i][g].t = "raise"
    IN records[i][f]

---------------------------------------------------------------------------
(* newapp.py: fetch_trials *)

Marker == <<"E","x","c","l","u","s","i","o","n"," ","C","r","i","t","e","r","i","a",":">>

\* the inclusion / exclusion split of eligibilityCriteria
SplitCriteria(eligibility_text) ==
    CASE eligibility_text.t = "raise" ->
            [Inclusion |-> eligibility_text, Exclusion |-> eligibility_text]
      [] ~Truthy(eligibility_text) -> [Inclusion |-> None, Exclusion |-> None]
      [] eligibility_text.t = "str" ->
            IF Contains(Marker, eligibility_text.v)
            THEN [Inclusion |-> Str(Split(eligibility_text.v, Marker)[1]),
                  Exclusion |-> Str(Split(eligibility_text.v, Marker)[2])]
            ELSE [Inclusion |-> eligibility_text, Exclusion |-> None]
      [] OTHER ->
            [Inclusion |-> Raise("TypeError"), Exclusion |-> Raise("TypeError")]

record_newapp(study) ==
    LET protocol == Get(study, "protocolSection", EmptyDict)
        eligibility_text ==
            Get(Get(protocol, "eligibilityModule", EmptyDict), "eligibilityCriteria", None)
        crit == SplitCriteria(eligibility_text)
    IN [NCTId |-> Get(Get(protocol, "identificationModule", EmptyDict), "nctId", None),
        Title |-> Get(Get(protocol, "identificationModule", EmptyDict), "briefTitle", None),
        Phase |-> PyStr(Get(Get(protocol, "designModule", EmptyDict), "phases", None)),
        Sponsor |-> Get(Get(Get(protocol, "sponsorCollaboratorsModule", EmptyDict),
                            "leadSponsor", EmptyDict), "name", None),
        Status |-> Get(Get(protocol, "statusModule", EmptyDict), "overallStatus", None),
        Enrollment |-> Get(Get(Get(protocol, "designModule", EmptyDict),
                               "enrollmentInfo", EmptyDict), "count", None),
        Inclusion |-> crit.Inclusion,
        Exclusion |-> crit.Exclusion]

fetch_trials_newapp(answer) ==
    LET studies == StudiesOf(answer)
    IN IF studies.t # "list" THEN studies
       ELSE LET records == [i \in DOMAIN studies.v |-> record_newapp(studies.v[i])]
            IN IF Raised(records) THEN FirstRaised(records)
               ELSE CoerceEnrollment(DataFrame(records))

---------------------------------------------------------------------------
(* app.py: fetch_trials *)

\* record["Country"]: the first location's country
FirstCountry(protocol) ==
    LET locations == Get(Get(protocol, "contactsLocationsModule", EmptyDict), "locations", None)
    IN CASE locations.t = "raise" -> locations
         [] Truthy(locations) /\ locations.t = "list" -> Get(locations.v[1], "country", None)
         [] OTHER -> None

record_app(study) ==
    LET protocol == Get(study, "protocolSection", EmptyDict)
    IN [NCTId |-> Get(Get(protocol, "identificationModule", EmptyDict), "nctId", None),
        Phase |-> PyStr(Get(Get(protocol, "designModule", EmptyDict), "phases", None)),
        Sponsor |-> Get(Get(Get(protocol, "sponsorCollaboratorsModule", EmptyDict),
                            "leadSponsor", EmptyDict), "name", None),
        Status |-> Get(Get(protocol, "statusModule", EmptyDict), "overallStatus", None),
        Enrollment |-> Get(Get(Get(protocol, "designModule", EmptyDict),
                               "enrollmentInfo", EmptyDict), "count", None),
        Country |-> FirstCountry(protocol)]

fetch_trials_app(answer) ==
    LET studies == StudiesOf(answer)
    IN IF studies.t # "list" THEN studies
       ELSE LET records == [i \in DOMAIN studies.v |-> record_app(studies.v[i])]
            IN IF Raised(records) THEN FirstRaised(records)
               ELSE CoerceEnrollment(DataFrame(records))

---------------------------------------------------------------------------
(* newapp.py, tab 2: the eligibility matcher *)

\* row["Inclusion"] or ""
OrEmpty(x) == IF Truthy(x) THEN x.v ELSE <<>>

\* text_contains without the case folding of the text
text_contains_cased(text, keywords) ==
    IF Len(text) = 0 THEN FALSE
    ELSE \E i \in DOMAIN keywords :
            Len(keywords[i]) > 0 /\ Contains(Lower(keywords[i]), text)

text_contains(text, keywords) ==
    IF Len(text) = 0 THEN FALSE
    ELSE LET lowered == Lower(text)
         IN \E i \in DOMAIN keywords :
                Len(keywords[i]) > 0 /\ Contains(Lower(keywords[i]), lowered)

Classify(score) ==
    IF score >= 3 THEN "Likely Eligible"
    ELSE IF score >= 1 THEN "Possibly Eligible"
    ELSE "Not Eligible"

\* ", ".join(reasons): the pieces of the joined string, in order
RECURSIVE JoinReasons(_)
JoinReasons(reasons) ==
    IF Len(reasons) = 0 THEN <<>>
    ELSE IF Len(reasons) = 1 THEN reasons
    ELSE <<Head(reasons), ", ">> \o JoinReasons(Tail(reasons))

\* evaluate_eligibility with a renal penalty of 3
evaluate_eligibility_renal3(row, p) ==
    LET inclusion == OrEmpty(row.Inclusion)
        exclusion == OrEmpty(row.Exclusion)
        diagnosis == text_contains(inclusion, <<p.patient_diagnosis>>)
        age == Contains(StrInt(p.patient_age), inclusion)
        pregnancy ==
            p.pregnant = "Yes"
            /\ text_contains(exclusion, << <<"p","r","e","g","n","a","n","t">> >>)
        renal ==
            p.renal_disease = "Yes"
            /\ text_contains(exclusion, << <<"r","e","n","a","l">>,
                                           <<"k","i","d","n","e","y">> >>)
        cancer ==
            p.cancer_history = "Yes"
            /\ text_contains(exclusion, << <<"c","a","n","c","e","r">>,
                                           <<"m","a","l","i","g","n","a","n","c","y">> >>)
        score == (IF diagnosis THEN 3 ELSE 0) + (IF age THEN 1 ELSE 0)
                 - (IF pregnancy THEN 5 ELSE 0)
                 - (IF renal THEN 3 ELSE 0)
                 - (IF cancer THEN 4 ELSE 0)
        reasons == (IF pregnancy THEN <<"Pregnancy exclusion">> ELSE <<>>)
                   \o (IF renal THEN <<"Renal exclusion">> ELSE <<>>)
                   \o (IF cancer THEN <<"Cancer exclusion">> ELSE <<>>)
    IN [EligibilityScore |-> score,
        EligibilityLabel |-> Classify(score),
        ExclusionReasons |-> JoinReasons(reasons)]

evaluate_eligibility(row, p) ==
    LET inclusion == OrEmpty(row.Inclusion)
        exclusion == OrEmpty(row.Exclusion)
        diagnosis == text_contains(inclusion, <<p.patient_diagnosis>>)
        age == Contains(StrInt(p.patient_age), inclusion)
        pregnancy ==
            p.pregnant = "Yes"
            /\ text_contains(exclusion, << <<"p","r","e","g","n","a","n","t">> >>)
        renal ==
            p.renal_disease = "Yes"
            /\ text_contains(exclusion, << <<"r","e","n","a","l">>,
                                           <<"k","i","d","n","e","y">> >>)
        cancer ==
            p.cancer_history = "Yes"
            /\ text_contains(exclusion, << <<"c","a","n","c","e","r">>,
                                           <<"m","a","l","i","g","n","a","n","c","y">> >>)
        score == (IF diagnosis THEN 3 ELSE 0) + (IF age THEN 1 ELSE 0)
                 - (IF pregnancy THEN 5 ELSE 0)
                 - (IF renal THEN 4 ELSE 0)
                 - (IF cancer THEN 4 ELSE 0)
        reasons == (IF pregnancy THEN <<"Pregnancy exclusion">> ELSE <<>>)
                   \o (IF renal THEN <<"Renal exclusion">> ELSE <<>>)
                   \o (IF cancer THEN <<"Cancer exclusion">> ELSE <<>>)
    IN [EligibilityScore |-> score,
        EligibilityLabel |-> Classify(score),
        ExclusionReasons |-> JoinReasons(reasons)]

\* df[[...]] = df.apply(lambda row: pd.Series(evaluate_eligibility(row)), axis=1)
ApplyEligibility(frame, p) ==
    LET new == {"EligibilityScore", "EligibilityLabel", "ExclusionReasons"}
    IN [frame EXCEPT
          !.columns = @ \cup new,
          !.rows = [i \in DOMAIN frame.rows |->
                      [c \in DOMAIN frame.rows[i] \cup new |->
                          IF c \in new THEN evaluate_eligibility(frame.rows[i], p)[c]
                          ELSE frame.rows[i][c]]]]

\* frame.iloc[perm]
Take(frame, perm) ==
    [frame EXCEPT !.index = [i \in DOMAIN perm |-> frame.index[perm[i]]],
                  !.rows = [i \in DOMAIN perm |-> frame.rows[perm[i]]]]

Permutations(n) ==
    {f \in [1..n -> 1..n] : \A i, j \in 1..n : f[i] = f[j] => i = j}

\* df.sort_values("EligibilityScore", ascending=False): kind is left at its
\* default "quicksort", which pandas documents as not stable, so every
\* arrangement with non-increasing scores is a possible result.
sort_values(frame) ==
    {Take(frame, perm) : perm \in
        {f \in Permutations(Len(frame.rows)) :
            \A i \in 1..(Len(frame.rows) - 1) :
                frame.rows[f[i]].EligibilityScore >= frame.rows[f[i + 1]].EligibilityScore}}

---------------------------------------------------------------------------
(* newapp.py: one run of the script *)

\* from the tabs on: a frame that is not empty is shown, and scored and
\* sorted when the run was started by "Evaluate Patient"
newapp_tabs(frame, clicked) ==
    /\ df' = frame
    /\ IF clicked
       THEN /\ view' = "evaluated"
            /\ out' \in sort_values(ApplyEligibility(frame, patient'))
       ELSE /\ view' = "tabs"
            /\ out' = frame

\* after df = fetch_trials(disease)
newapp_fetched(r, clicked) ==
    CASE r.t = "raise" -> view' = "crash" /\ df' = r /\ out' = None
      [] r.t = "hang" -> view' = "hang" /\ df' = r /\ out' = None
      [] r.t = "df" /\ IsEmpty(r) -> view' = "no_trials" /\ df' = r /\ out' = None
      [] OTHER -> newapp_tabs(r, clicked)

\* the whole script with the widget values disease', patient'; st.cache_data
\* keeps what fetch_trials returned, not what it raised
newapp_script(clicked) ==
    IF Len(disease') = 0
    THEN /\ view' = "prompt" /\ sent' = <<>> /\ df' = None /\ out' = None
         /\ UNCHANGED cache
    ELSE IF disease' \in DOMAIN cache
    THEN /\ sent' = <<>>
         /\ UNCHANGED cache
         /\ newapp_fetched(cache[disease'], clicked)
    ELSE LET r == fetch_trials_newapp(registry)
         IN /\ sent' = <<disease'>>
            /\ cache' = IF r.t = "df"
                        THEN [k \in DOMAIN cache \cup {disease'} |->
                                 IF k = disease' THEN r ELSE cache[k]]
                        ELSE cache
            /\ newapp_fetched(r, clicked)

\* the matcher widgets are drawn only by a run that reached the tabs
MatcherShown == view \in {"tabs", "evaluated"}

NewappDisease(Terms) ==
    /\ app = "newapp" /\ view # "hang"
    /\ \E d \in Terms : d # disease /\ disease' = d
    /\ UNCHANGED <<app, filters, patient, registry>>
    /\ newapp_script(FALSE)

NewappWidget(name, Values) ==
    /\ app = "newapp" /\ MatcherShown
    /\ \E v \in Values : v # patient[name] /\ patient' = [patient EXCEPT ![name] = v]
    /\ UNCHANGED <<app, filters, disease, registry>>
    /\ newapp_script(FALSE)

EvaluatePatient ==
    /\ app = "newapp" /\ MatcherShown
    /\ UNCHANGED <<app, filters, disease, patient, registry>>
    /\ newapp_script(TRUE)

---------------------------------------------------------------------------
(* app.py: the sidebar filters *)

All == <<"A","l","l">>

\* re.compile(pat) succeeds.  Of the regular-expression syntax the patterns
\* typed here use "." and an unclosed "("; every other character is a literal.
Compiles(pat) == \A i \in DOMAIN pat : pat[i] # "("

\* the compiled pattern matches s from position i on
MatchesAt(pat, s, i, ignorecase) ==
    \A j \in DOMAIN pat :
        \/ pat[j] = "."
        \/ IF ignorecase THEN LowerChar(pat[j]) = LowerChar(s[i + j - 1])
           ELSE pat[j] = s[i + j - 1]

\* pat.search(s) is not None
re_search(pat, s, ignorecase) ==
    \E i \in 1..(Len(s) - Len(pat) + 1) : MatchesAt(pat, s, i, ignorecase)

\* frame[column].str.contains(pat, case=case, na=False): regex=True is the
\* default, so pat is compiled as a regular expression
str_contains(frame, column, pat, case) ==
    IF ~Compiles(pat) THEN Raise("re.error")
    ELSE [t |-> "mask",
          v |-> [i \in DOMAIN frame.rows |->
                    /\ frame.rows[i][column].t = "str"
                    /\ re_search(pat, frame.rows[i][column].v, ~case)]]

\* the positions mask holds at, in ascending order
RECURSIVE Where(_, _)
Where(mask, n) ==
    IF n = 0 THEN <<>>
    ELSE Where(mask, n - 1) \o (IF mask[n] THEN <<n>> ELSE <<>>)

\* frame[mask]
BoolIndex(frame, mask) ==
    IF mask.t = "raise" THEN mask ELSE Take(frame, Where(mask.v, Len(mask.v)))

\* an enrollment cell with no number in it passes the range
EnrollmentInRangeOrMissing(cell, range) ==
    cell.t # "num" \/ (cell.v >= range[1] /\ cell.v <= range[2])

\* (Enrollment >= enrollment_range[0]) & (Enrollment <= enrollment_range[1])
EnrollmentInRange(cell, range) ==
    cell.t = "num" /\ cell.v >= range[1] /\ cell.v <= range[2]

PhaseStep(frame, f) ==
    IF f.phase_filter # All
    THEN BoolIndex(frame, str_contains(frame, "Phase", f.phase_filter, TRUE))
    ELSE frame

CountryStep(frame, f) ==
    IF frame.t = "raise" THEN frame
    ELSE IF Len(f.country_filter) > 0
    THEN BoolIndex(frame, str_contains(frame, "Country", f.country_filter, FALSE))
    ELSE frame

SponsorStep(frame, f) ==
    IF frame.t = "raise" THEN frame
    ELSE IF Len(f.sponsor_filter) > 0
    THEN BoolIndex(frame, str_contains(frame, "Sponsor", f.sponsor_filter, FALSE))
    ELSE frame

StatusStep(frame, f) ==
    IF frame.t = "raise" THEN frame
    ELSE IF f.status_filter # All
    THEN BoolIndex(frame,
            [t |-> "mask",
             v |-> [i \in DOMAIN frame.rows |-> frame.rows[i].Status = Str(f.status_filter)]])
    ELSE frame

EnrollmentStep(frame, f) ==
    IF frame.t = "raise" THEN frame
    ELSE BoolIndex(frame,
            [t |-> "mask",
             v |-> [i \in DOMAIN frame.rows |->
                        EnrollmentInRange(frame.rows[i].Enrollment, f.enrollment_range)]])

\* "Apply Filters": the five steps in the order of the script
ApplyFilters(frame, f) ==
    EnrollmentStep(StatusStep(SponsorStep(CountryStep(PhaseStep(frame, f), f), f), f), f)

---------------------------------------------------------------------------
(* app.py: one run of the script *)

\* a widget changed: the script reruns with the button not pressed and draws
\* the title and the sidebar only
AppRerun ==
    /\ view' = "blank" /\ sent' = <<>> /\ df' = None /\ out' = None
    /\ UNCHANGED <<app, patient, cache, registry>>

AppDisease(Terms) ==
    /\ app = "app" /\ view # "hang"
    /\ \E d \in Terms : d # disease /\ disease' = d
    /\ UNCHANGED filters
    /\ AppRerun

AppWidget(name, Values) ==
    /\ app = "app" /\ view # "hang"
    /\ \E v \in Values : v # filters[name] /\ filters' = [filters EXCEPT ![name] = v]
    /\ UNCHANGED disease
    /\ AppRerun

\* the button "Generate Dashboard"
GenerateDashboard ==
    /\ app = "app" /\ view # "hang"
    /\ UNCHANGED <<app, disease, filters, patient, cache, registry>>
    /\ LET r == fetch_trials_app(registry)
       IN /\ sent' = <<disease>>
           /\ df' = r
           /\ CASE r.t = "raise" -> view' = "crash" /\ out' = None
                [] r.t = "hang" -> view' = "hang" /\ out' = None
                [] r.t = "df" /\ IsEmpty(r) -> view' = "no_trials" /\ out' = None
                [] OTHER ->
                    LET filtered == ApplyFilters(r, filters)
                    IN IF filtered.t = "raise"
                       THEN view' = "crash" /\ out' = None
                       ELSE view' = "dashboard" /\ out' = filtered

---------------------------------------------------------------------------
(* What the user and the registry can supply *)

MaxFrags == 3
MaxStudies == 2

Flu == <<"f","l","u">>
Terms == {<<>>, Flu}

Ages == {45, 50}
Diagnoses == {<<>>, <<"d","i","a","b","e","t","e","s">>}
YesNo == {"No", "Yes"}

\* pieces of eligibility text
Frags ==
    {<<"D","i","a","b","e","t","e","s"," ","4","5">>,
     <<"P","r","e","g","n","a","n","t">>,
     <<"r","e","n","a","l"," ","m","a","l","i","g","n","a","n","c","y">>,
     <<"K","i","d","n","e","y"," ","c","a","n","c","e","r">>,
     Marker}

RECURSIVE TextsUpTo(_)
TextsUpTo(n) ==
    IF n = 0 THEN {<<>>}
    ELSE TextsUpTo(n - 1) \cup {t \o f : t \in TextsUpTo(n - 1), f \in Frags}

\* a 200 reply whose body is {"studies": [...]}
Ok(studies) ==
    [k |-> "http", status |-> 200, body |-> Dict([studies |-> List(studies)])]

\* a study with an identification module and the given eligibilityCriteria
CriteriaStudy(nct, criteria) ==
    Dict([protocolSection |->
        Dict([identificationModule |-> Dict([nctId |-> Str(nct)]),
              eligibilityModule |-> Dict([eligibilityCriteria |-> criteria])])])

\* criteria of the studies of a reply with several studies
FewCriteria ==
    {None, Str(<<"D","i","a","b","e","t","e","s"," ","4","5">>),
     Str(Marker \o <<"P","r","e","g","n","a","n","t">>)}

SeveralStudies(n) ==
    {[i \in 1..n |-> CriteriaStudy(<<"N">> \o StrInt(i), c[i])] : c \in [1..n -> FewCriteria]}

MatchReplies ==
    {Ok(<<CriteriaStudy(<<"N","1">>, Str(text))>>) : text \in TextsUpTo(MaxFrags)}
    \cup {Ok(<<CriteriaStudy(<<"N","1">>, None)>>)}
    \cup UNION {{Ok(studies) : studies \in SeveralStudies(n)} : n \in 2..MaxStudies}

\* words of the registry
Recruiting == <<"R","E","C","R","U","I","T","I","N","G">>
Completed == <<"C","O","M","P","L","E","T","E","D">>
Phase1 == <<"P","H","A","S","E","1">>
Phase2 == <<"P","H","A","S","E","2">>
India == <<"I","n","d","i","a">>
Pfizer == <<"P","f","i","z","e","r">>

\* what the sidebar widgets of app.py are set to
PhaseChoices == {All, Phase1}
CountryInputs == {<<>>, <<"I","N","D">>, <<".">>, <<"(">>}
SponsorInputs == {<<>>, <<"p","f">>}
StatusChoices == {All, Recruiting}
Ranges == {<<0, 1000>>, <<10, 5000>>}

\* a dict of the entries whose value is given: Absent leaves the key out
Absent == [t |-> "absent"]
Entries(d) == Dict([k \in {x \in DOMAIN d : d[x].t # "absent"} |-> d[k]])

\* a study as the registry sends it; Absent for a field leaves it out
Study(nct, phases, sponsor, status, count, country, criteria) ==
    Dict([protocolSection |->
        Dict([identificationModule |->
                Entries([nctId |-> nct, briefTitle |-> Str(<<"T","r","i","a","l">>)]),
              designModule |->
                Entries([phases |-> phases,
                         enrollmentInfo |-> Entries([count |-> count])]),
              sponsorCollaboratorsModule |->
                Dict([leadSponsor |-> Entries([name |-> sponsor])]),
              statusModule |-> Entries([overallStatus |-> status]),
              contactsLocationsModule |->
                Dict([locations |-> List(<<Entries([country |-> country])>>)]),
              eligibilityModule |-> Entries([eligibilityCriteria |-> criteria])])])

\* studies that differ in what the filters read
FilterStudies ==
    {Study(Str(<<"N","1">>), phases, sponsor, status, count, country, Absent) :
        phases \in {Absent, List(<<Str(Phase1), Str(Phase2)>>)},
        sponsor \in {Absent, Str(Pfizer)},
        status \in {Absent, Str(Recruiting), Str(Completed)},
        count \in {Absent, PyInt(10), PyInt(1000), PyInt(1001), Str(<<"n","/","a">>)},
        country \in {Absent, Str(India)}}

\* the studies of a reply with several studies: the enrollment and the
\* status differ
FewStudies ==
    {Study(Str(<<"N","1">>), List(<<Str(Phase1)>>), Str(Pfizer), status, count, Str(India),
           Absent) :
        status \in {Str(Recruiting), Str(Completed)}, count \in {Absent, PyInt(10)}}

FilterReplies ==
    {Ok(<<study>>) : study \in FilterStudies}
    \cup UNION {{Ok(studies) : studies \in [1..n -> FewStudies]} : n \in 2..MaxStudies}

\* a study with every field the scripts read
FullStudy ==
    Study(Str(<<"N","C","T","1">>), List(<<Str(Phase1)>>), Str(Pfizer), Str(Recruiting),
          PyInt(10), Str(India), Str(<<"D","i","a","b","e","t","e","s"," ","4","5">>))

\* j with the entry at path taken out (Absent) or set to val
RECURSIVE With(_, _, _)
With(j, path, val) ==
    IF Len(path) = 1
    THEN Entries([k \in DOMAIN j.v \cup {path[1]} |-> IF k = path[1] THEN val ELSE j.v[k]])
    ELSE Dict([j.v EXCEPT ![path[1]] = With(@, Tail(path), val)])

\* the dicts and fields of a study, by the keys that lead to them
Paths ==
    {<<"protocolSection">>,
     <<"protocolSection", "identificationModule">>,
     <<"protocolSection", "identificationModule", "nctId">>,
     <<"protocolSection", "identificationModule", "briefTitle">>,
     <<"protocolSection", "designModule">>,
     <<"protocolSection", "designModule", "phases">>,
     <<"protocolSection", "designModule", "enrollmentInfo">>,
     <<"protocolSection", "designModule", "enrollmentInfo", "count">>,
     <<"protocolSection", "sponsorCollaboratorsModule">>,
     <<"protocolSection", "sponsorCollaboratorsModule", "leadSponsor">>,
     <<"protocolSection", "sponsorCollaboratorsModule", "leadSponsor", "name">>,
     <<"protocolSection", "statusModule">>,
     <<"protocolSection", "statusModule", "overallStatus">>,
     <<"protocolSection", "contactsLocationsModule">>,
     <<"protocolSection", "contactsLocationsModule", "locations">>,
     <<"protocolSection", "eligibilityModule">>,
     <<"protocolSection", "eligibilityModule", "eligibilityCriteria">>}

\* the full study, the empty study, and the full study with one entry
\* absent, null, or of another shape
DegradedStudies ==
    {FullStudy, EmptyDict}
    \cup {With(FullStudy, path, val) : path \in Paths, val \in {Absent, None}}
    \cup {With(FullStudy, <<"protocolSection", "designModule", "enrollmentInfo", "count">>, val) :
            val \in {Str(<<"1","5">>), Str(<<"n","/","a">>)}}
    \cup {With(FullStudy, <<"protocolSection", "contactsLocationsModule", "locations">>, val) :
            val \in {List(<<>>), List(<<EmptyDict>>)}}

\* replies that carry no study
FailedReplies ==
    {[k |-> "ConnectionError"], [k |-> "hang"],
     [k |-> "http", status |-> 404, body |-> [t |-> "undecodable"]],
     [k |-> "http", status |-> 500, body |-> EmptyDict],
     [k |-> "http", status |-> 200, body |-> [t |-> "undecodable"]],
     [k |-> "http", status |-> 200, body |-> EmptyDict],
     [k |-> "http", status |-> 200, body |-> None],
     Ok(<<>>)}

\* an answer of up to MaxStudies studies: a degraded study at some place
\* among full ones
FetchReplies ==
    FailedReplies
    \cup UNION {UNION {{Ok([i \in 1..n |-> IF i = at THEN study ELSE FullStudy]) :
                            study \in DegradedStudies} : at \in 1..n} : n \in 1..MaxStudies}

---------------------------------------------------------------------------
(* Specifications *)

\* the first run of newapp.py: no search term yet, st.stop() at the prompt
InitNewapp ==
    /\ app = "newapp"
    /\ disease = <<>>
    /\ filters = None
    /\ patient = [patient_age |-> 45, patient_diagnosis |-> <<>>, pregnant |-> "No",
                  renal_disease |-> "No", cancer_history |-> "No"]
    /\ cache = <<>>
    /\ sent = <<>>
    /\ view = "prompt"
    /\ df = None
    /\ out = None

NextNewapp ==
    \/ NewappDisease(Terms)
    \/ NewappWidget("patient_age", Ages)
    \/ NewappWidget("patient_diagnosis", Diagnoses)
    \/ NewappWidget("pregnant", YesNo)
    \/ NewappWidget("renal_disease", YesNo)
    \/ NewappWidget("cancer_history", YesNo)
    \/ EvaluatePatient

InitMatcher == InitNewapp /\ registry \in MatchReplies

\* newapp.py with the matcher widgets in use
SpecNewapp == InitMatcher /\ [][NextNewapp]_vars

\* the first run of app.py: the sidebar at its defaults, the button not pressed
InitApp ==
    /\ app = "app"
    /\ disease = <<>>
    /\ filters = [phase_filter |-> All, country_filter |-> <<>>, sponsor_filter |-> <<>>,
                  status_filter |-> All, enrollment_range |-> <<0, 1000>>]
    /\ patient = None
    /\ cache = <<>>
    /\ sent = <<>>
    /\ view = "blank"
    /\ df = None
    /\ out = None

NextApp ==
    \/ AppDisease(Terms)
    \/ AppWidget("phase_filter", PhaseChoices)
    \/ AppWidget("country_filter", CountryInputs)
    \/ AppWidget("sponsor_filter", SponsorInputs)
    \/ AppWidget("status_filter", StatusChoices)
    \/ AppWidget("enrollment_range", Ranges)
    \/ GenerateDashboard

InitFilters == InitApp /\ registry \in FilterReplies

\* app.py with the filter widgets in use
SpecApp == InitFilters /\ [][NextApp]_vars

Init == (InitApp \/ InitNewapp) /\ registry \in FetchReplies

Next ==
    \/ AppDisease(Terms)
    \/ GenerateDashboard
    \/ NewappDisease(Terms)
    \/ EvaluatePatient

\* either script, every kind of reply from the registry, the other widgets
\* at their defaults
Spec == Init /\ [][Next]_vars


---------------------------------------------------------------------------
(* Claims about the eligibility matcher, checked under SpecNewapp *)

SameLetter(a, b) ==
    a = b \/ \E i \in DOMAIN UpperCase : {a, b} = {UpperCase[i], LowerCase[i]}

\* sub is a substring of s, letters compared without regard to case
SubstringCI(sub, s) ==
    \E i \in 0..(Len(s) - Len(sub)) : \A j \in 1..Len(sub) : SameLetter(s[i + j], sub[j])

\* sub is a substring of s
Substring(sub, s) ==
    \E i \in 0..(Len(s) - Len(sub)) : \A j \in 1..Len(sub) : s[i + j] = sub[j]

\* a null text matches nothing, like the empty text
TextOf(x) == IF x.t = "str" THEN x.v ELSE <<>>

AgeDecimal(n) == CASE n = 45 -> <<"4","5">> [] n = 50 -> <<"5","0">>

Indicator(b) == IF b THEN 1 ELSE 0

PregnancyFires(row, p) ==
    p.pregnant = "Yes" /\ SubstringCI(<<"p","r","e","g","n","a","n","t">>, TextOf(row.Exclusion))

RenalFires(row, p) ==
    /\ p.renal_disease = "Yes"
    /\ \/ SubstringCI(<<"r","e","n","a","l">>, TextOf(row.Exclusion))
       \/ SubstringCI(<<"k","i","d","n","e","y">>, TextOf(row.Exclusion))

CancerFires(row, p) ==
    /\ p.cancer_history = "Yes"
    /\ \/ SubstringCI(<<"c","a","n","c","e","r">>, TextOf(row.Exclusion))
       \/ SubstringCI(<<"m","a","l","i","g","n","a","n","c","y">>, TextOf(row.Exclusion))

StatedScore(row, p) ==
    3 * Indicator(Len(p.patient_diagnosis) > 0
                  /\ SubstringCI(p.patient_diagnosis, TextOf(row.Inclusion)))
    + Indicator(Substring(AgeDecimal(p.patient_age), TextOf(row.Inclusion)))
    - 5 * Indicator(PregnancyFires(row, p))
    - 4 * Indicator(RenalFires(row, p))
    - 4 * Indicator(CancerFires(row, p))

StatedLabel(score) ==
    CASE score >= 3 -> "Likely Eligible"
      [] 1 <= score /\ score < 3 -> "Possibly Eligible"
      [] OTHER -> "Not Eligible"

StatedReasons(row, p) ==
    (IF PregnancyFires(row, p) THEN <<"Pregnancy exclusion">> ELSE <<>>)
    \o (IF RenalFires(row, p) THEN <<"Renal exclusion">> ELSE <<>>)
    \o (IF CancerFires(row, p) THEN <<"Cancer exclusion">> ELSE <<>>)

IsReason(piece) == piece # ", "

\* the reasons a scored row lists, without the separators of the join
ReasonsOf(row) == SelectSeq(row.ExclusionReasons, IsReason)

\* C1: after "Evaluate Patient" every trial carries the score
\* 3*[diagnosis non-empty and a case-insensitive substring of the inclusion
\* text] + [decimal age a substring of the inclusion text] - 5*[pregnant and
\* "pregnant" in the exclusion text] - 4*[renal disease and "renal" or "kidney"
\* there] - 4*[cancer history and "cancer" or "malignancy" there], the label
\* that goes with the score (>= 3 Likely, 1..2 Possibly, else Not Eligible),
\* and as reasons exactly the fired rules in the order Pregnancy, Renal,
\* Cancer; a null or empty text matches nothing.
C1_ScoreLabelReasons ==
    view = "evaluated" =>
        \A i \in DOMAIN out.rows :
            /\ out.rows[i].EligibilityScore = StatedScore(out.rows[i], patient)
            /\ out.rows[i].EligibilityLabel = StatedLabel(out.rows[i].EligibilityScore)
            /\ ReasonsOf(out.rows[i]) = StatedReasons(out.rows[i], patient)

\* a trial matched on diagnosis (in another case than typed) and on age, and
\* excluded for pregnancy: 3 + 1 - 5
C1_Witness ==
    /\ view = "evaluated"
    /\ \E i \in DOMAIN out.rows :
        /\ out.rows[i].EligibilityScore = -1
        /\ out.rows[i].EligibilityLabel = "Not Eligible"
        /\ out.rows[i].ExclusionReasons = <<"Pregnancy exclusion">>
        /\ out.rows[i].Inclusion.t = "str"

\* C2 as stated: after "Evaluate Patient" the scored trials are in descending
\* score order and trials of equal score keep their fetched order.
C2_StableDescending ==
    view = "evaluated" =>
        \A i, j \in DOMAIN out.rows :
            i < j =>
                /\ out.rows[i].EligibilityScore >= out.rows[j].EligibilityScore
                /\ out.rows[i].EligibilityScore = out.rows[j].EligibilityScore
                        => out.index[i] < out.index[j]

\* the eligibilityCriteria of the i-th study the registry answers with
CriteriaOf(i) ==
    registry.body.v["studies"].v[i].v["protocolSection"].v["eligibilityModule"].v["eligibilityCriteria"]

\* C7 as stated: a criteria text with the marker is split at the marker's
\* first occurrence, inclusion before it and exclusion everything after it;
\* a text without the marker is all inclusion, its exclusion is null, and
\* the trial then never lists a reason or scores below 0.
C7_SplitAtFirstMarker ==
    /\ df.t = "df" =>
          \A i \in DOMAIN df.rows :
            LET text == CriteriaOf(i)
                at == Find(Marker, text.v)
            IN text.t = "str" =>
                IF at # 0
                THEN /\ TextOf(df.rows[i].Inclusion) = SubSeq(text.v, 1, at - 1)
                     /\ TextOf(df.rows[i].Exclusion)
                            = SubSeq(text.v, at + Len(Marker), Len(text.v))
                ELSE /\ TextOf(df.rows[i].Inclusion) = text.v
                     /\ df.rows[i].Exclusion = None
    /\ view = "evaluated" =>
          \A i \in DOMAIN out.rows :
            out.rows[i].Exclusion = None =>
                out.rows[i].EligibilityScore >= 0 /\ ReasonsOf(out.rows[i]) = <<>>

\* C10: a trial with a fired exclusion rule scores at most 0 and is labelled
\* Not Eligible, a trial labelled Likely or Possibly Eligible lists no reason,
\* and every score lies in -13..4.
C10_ExcludedNeverEligible ==
    view = "evaluated" =>
        \A i \in DOMAIN out.rows :
            /\ Len(out.rows[i].ExclusionReasons) > 0 =>
                    /\ out.rows[i].EligibilityScore <= 0
                    /\ out.rows[i].EligibilityLabel = "Not Eligible"
            /\ out.rows[i].EligibilityLabel \in {"Likely Eligible", "Possibly Eligible"} =>
                    out.rows[i].ExclusionReasons = <<>>
            /\ out.rows[i].EligibilityScore \in -13..4

\* the tight case: diagnosis and age matched, one 4-point exclusion fired
C10_Witness ==
    /\ view = "evaluated"
    /\ \E i \in DOMAIN out.rows :
        /\ out.rows[i].EligibilityScore = 0
        /\ Len(out.rows[i].ExclusionReasons) = 1

---------------------------------------------------------------------------
(* Claims about the filters of app.py, checked under SpecApp *)

DefaultRange == <<0, 1000>>

\* the record passes every active filter, as the filters are stated
StatedPass(row) ==
    /\ filters.phase_filter = All
       \/ (row.Phase.t = "str" /\ Substring(filters.phase_filter, row.Phase.v))
    /\ Len(filters.country_filter) = 0
       \/ (row.Country.t = "str" /\ SubstringCI(filters.country_filter, row.Country.v))
    /\ Len(filters.sponsor_filter) = 0
       \/ (row.Sponsor.t = "str" /\ SubstringCI(filters.sponsor_filter, row.Sponsor.v))
    /\ filters.status_filter = All \/ row.Status = Str(filters.status_filter)
    /\ row.Enrollment.t = "num"
    /\ filters.enrollment_range[1] <= row.Enrollment.v
    /\ row.Enrollment.v <= filters.enrollment_range[2]

\* C5 as stated: whenever trials were fetched the dashboard shows exactly the
\* fetched records that pass all active filters (phase substring, country and
\* sponsor substring without regard to case, status equality, enrollment
\* range), in fetched order, and no filter input makes the run fail.
C5_ExactSubsequence ==
    (app = "app" /\ df.t = "df" /\ ~IsEmpty(df)) =>
        /\ view = "dashboard"
        /\ out.rows = SelectSeq(df.rows, StatedPass)

\* C6 as amended: every record of the filtered output has an enrollment
\* number within the inclusive range, and a fetched record without one is
\* never in the output, whatever the range, the default (0, 1000) included.
C6_EnrollmentAlwaysFiltered ==
    view = "dashboard" =>
        /\ \A i \in DOMAIN out.rows :
            /\ out.rows[i].Enrollment.t = "num"
            /\ filters.enrollment_range[1] <= out.rows[i].Enrollment.v
            /\ out.rows[i].Enrollment.v <= filters.enrollment_range[2]
        /\ \A i \in DOMAIN df.rows :
            df.rows[i].Enrollment.t # "num" =>
                \A j \in DOMAIN out.index : out.index[j] # df.index[i]

\* at the default range one of two fetched records has no enrollment and is
\* dropped, the other is shown; and records sit on both ends of a range
C6_Witness ==
    /\ view = "dashboard"
    /\ filters.enrollment_range = DefaultRange
    /\ Len(df.rows) = 2 /\ Len(out.rows) = 1
    /\ \E i \in DOMAIN df.rows : df.rows[i].Enrollment = NaN
    /\ out.rows[1].Enrollment.v = 10

\* C6 as stated: output records have an enrollment within the range, a
\* record without enrollment is excluded when the range is not the default,
\* and at the default range it is not excluded by this filter.
C6_NullKeptAtDefault ==
    view = "dashboard" =>
        /\ \A i \in DOMAIN out.rows :
            out.rows[i].Enrollment.t = "num" =>
                /\ filters.enrollment_range[1] <= out.rows[i].Enrollment.v
                /\ out.rows[i].Enrollment.v <= filters.enrollment_range[2]
        /\ filters.enrollment_range # DefaultRange =>
                \A i \in DOMAIN out.rows : out.rows[i].Enrollment.t = "num"
        /\ (/\ filters.enrollment_range = DefaultRange
            /\ filters.phase_filter = All /\ filters.status_filter = All
            /\ Len(filters.country_filter) = 0 /\ Len(filters.sponsor_filter) = 0) =>
                \A i \in DOMAIN df.rows :
                    df.rows[i].Enrollment.t # "num" =>
                        \E j \in DOMAIN out.index : out.index[j] = df.index[i]

---------------------------------------------------------------------------
(* Claims about the request and the records, checked under Spec *)

\* the registry's answer is one of: connection error, no answer in time,
\* a status outside 2xx, a body that does not decode, a body with no
\* "studies" key, an empty "studies" list
NoData ==
    \/ registry.k \in {"ConnectionError", "hang"}
    \/ /\ registry.k = "http"
       /\ \/ registry.status \notin 200..299
          \/ registry.body.t = "undecodable"
          \/ /\ registry.body.t = "dict"
             /\ \/ "studies" \notin DOMAIN registry.body.v
                \/ /\ registry.body.v["studies"].t = "list"
                   /\ Len(registry.body.v["studies"].v) = 0

\* C3 as stated: a run that asked the registry and got no data ends in
\* "No trials found" with an empty result, never in an exception or a hang.
C3_NoDataNeverRaises ==
    (sent # <<>> /\ NoData) => (view = "no_trials" /\ df.t = "df" /\ IsEmpty(df))

\* C4 as stated: no run sends a request for an empty search term.
C4_NoRequestForEmptyTerm ==
    \A i \in DOMAIN sent : Len(sent[i]) > 0

\* C8 as stated: every record fetched, displayed or exported has an id.
C8_IdNeverNull ==
    /\ df.t = "df" => \A i \in DOMAIN df.rows : df.rows[i].NCTId.t = "str"
    /\ out.t = "df" => \A i \in DOMAIN out.rows : out.rows[i].NCTId.t = "str"

\* the value at path in j; null when a step is absent, null or no dict
RECURSIVE Lookup(_, _)
Lookup(j, path) ==
    IF Len(path) = 0 THEN j
    ELSE IF j.t = "dict" /\ path[1] \in DOMAIN j.v THEN Lookup(j.v[path[1]], Tail(path))
    ELSE None

RawStudies == registry.body.v["studies"].v

\* the registry answers 200 with a non-empty list of studies
HasStudies ==
    /\ registry.k = "http" /\ registry.status = 200 /\ registry.body.t = "dict"
    /\ "studies" \in DOMAIN registry.body.v
    /\ registry.body.v["studies"].t = "list"
    /\ Len(RawStudies) > 0

\* C9 as stated: whatever is absent or null inside the studies of an answer,
\* the fetch returns one record per study, and a field whose source is
\* absent or null is null in the record (phase and enrollment included, an
\* enrollment that is no number too).
C9_MissingFieldsBecomeNull ==
    (sent # <<>> /\ HasStudies) =>
        /\ df.t = "df"
        /\ Len(df.rows) = Len(RawStudies)
        /\ \A i \in DOMAIN df.rows :
            /\ Lookup(RawStudies[i], <<"protocolSection", "identificationModule", "nctId">>) = None
                    => df.rows[i].NCTId = None
            /\ Lookup(RawStudies[i], <<"protocolSection", "designModule", "phases">>) = None
                    => df.rows[i].Phase = None
            /\ Lookup(RawStudies[i], <<"protocolSection", "sponsorCollaboratorsModule",
                                       "leadSponsor", "name">>) = None
                    => df.rows[i].Sponsor = None
            /\ Lookup(RawStudies[i], <<"protocolSection", "statusModule", "overallStatus">>) = None
                    => df.rows[i].Status = None
            /\ LET count == Lookup(RawStudies[i], <<"protocolSection", "designModule",
                                                     "enrollmentInfo", "count">>)
               IN (count = None \/ (count.t = "str" /\ ~IsDigits(count.v)))
                    => df.rows[i].Enrollment = NaN

====
